---------------------------- MODULE Spec2Model ----------------------------
(***************************************************************************)
(* A model of src/niutils/niutils.py: the extension normaliser check_ext,  *)
(* the rank computer compute_rank, the workflow variance_weighted_average  *)
(* (with load_nifti_get_mask and export_nifti) and compute_metric.         *)
(*                                                                         *)
(* Strings are sequences of one-character strings.  Floating-point numbers *)
(* are exact rationals <<n, d>> in lowest terms with d > 0; the two        *)
(* non-finite results the code can produce are Inf = <<1, 0>> (1/0) and    *)
(* NaN = <<0, 0>> (0/0).  Rounding error of binary floating point is not   *)
(* modelled.  A volume is a function from voxel indices to values: the     *)
(* spatial shape plays no part in any of the computations modelled here.   *)
(* numpy is taken to be a version whose np.stack accepts the dict views    *)
(* the workflow hands it, as the workflow needs to run at all.             *)
(***************************************************************************)
EXTENDS Integers, Sequences, FiniteSets, TLC

(***************************************************************************)
(* Bounds of the model.                                                    *)
(***************************************************************************)
MaxPieces == 3      \* check_ext: a file name is made of at most this many pieces
MaxN == 4           \* compute_rank, compute_metric: longest comparison axis
MaxVal == 2         \* compute_rank: entries of the axis are drawn from 0..MaxVal
MaxSub == 2         \* variance_weighted_average: sub_list has at most this many subjects
MaxSes == 2         \* variance_weighted_average: at most this many sessions (last_ses <= MaxSes + 1)
NVox == 1           \* variance_weighted_average: voxels of a volume
NVoxM == 2          \* compute_metric: voxels of the data cube and of the atlas
MaxLabel == 2       \* compute_metric: atlas labels are drawn from 0..MaxLabel
MaxData == 1        \* compute_metric: data values are drawn from 0..MaxData
AxisLenMask == 2    \* compute_metric: length of the comparison axis in SpecMask

(***************************************************************************)
(* Exact arithmetic.                                                       *)
(***************************************************************************)
Abs(n) == IF n < 0 THEN -n ELSE n

RECURSIVE GCD(_, _)
GCD(a, b) == IF b = 0 THEN a ELSE GCD(b, a % b)

\* the rational n/d (d > 0) in lowest terms
Rat(n, d) == LET g == GCD(Abs(n), d) IN <<n \div g, d \div g>>

FromInt(n) == <<n, 1>>
Inf == <<1, 0>>
NaN == <<0, 0>>
IsFinite(a) == a[2] # 0

RAdd(a, b) == Rat(a[1] * b[2] + b[1] * a[2], a[2] * b[2])
RSub(a, b) == Rat(a[1] * b[2] - b[1] * a[2], a[2] * b[2])
\* a non-finite factor stays non-finite (nan * x = nan, inf * 0 = nan)
RMul(a, b) ==
    IF IsFinite(a) /\ IsFinite(b) THEN Rat(a[1] * b[1], a[2] * b[2])
    ELSE IF a = NaN \/ b = NaN \/ a[1] = 0 \/ b[1] = 0 THEN NaN ELSE Inf
RLess(a, b) == a[1] * b[2] < b[1] * a[2]
RLeq(a, b) == a[1] * b[2] <= b[1] * a[2]

\* a / b as numpy's float division: x/0 is inf (nan for 0/0) with a warning
RDiv(a, b) ==
    IF b[1] = 0
    THEN (IF a[1] = 0 THEN NaN ELSE Inf)
    ELSE IF b[1] > 0 THEN Rat(a[1] * b[2], a[2] * b[1])
                     ELSE Rat(-(a[1] * b[2]), a[2] * (-b[1]))

RECURSIVE RSum(_)
RSum(s) == IF s = <<>> THEN FromInt(0) ELSE RAdd(Head(s), RSum(Tail(s)))

\* the cast of a float to an integer type: truncation toward zero
Trunc(a) == IF a[1] >= 0 THEN a[1] \div a[2] ELSE -((-a[1]) \div a[2])

(***************************************************************************)
(* Strings.                                                                *)
(***************************************************************************)
RECURSIVE Concat(_)
Concat(ss) == IF ss = <<>> THEN <<>> ELSE Head(ss) \o Concat(Tail(ss))

\* str.endswith
EndsWith(s, suf) ==
    /\ Len(suf) <= Len(s)
    /\ SubSeq(s, Len(s) - Len(suf) + 1, Len(s)) = suf

\* the slice s[:-k] for k > 0
DropLast(s, k) == IF Len(s) <= k THEN <<>> ELSE SubSeq(s, 1, Len(s) - k)

NiiGz == <<".", "n", "i", "i", ".", "g", "z">>

StripLen == 7

\* check_ext(fname, ext): lines 26-28
check_ext(f, e) == IF EndsWith(f, e) THEN DropLast(f, StripLen) \o e ELSE f \o e

(***************************************************************************)
(* State.                                                                  *)
(***************************************************************************)
VARIABLES
    ce_fname, ce_ext, ce_once, ce_twice, ce_pc,   \* two successive calls of check_ext
    tiePrio,                                      \* the order the build's sort gives to equal values
    cr_data, cr_islast, cr_rank, cr_pc,           \* one call of compute_rank
    \* one call of variance_weighted_average
    files,                  \* the file system: path -> volume, for the files that exist
    template, fdirArg,      \* the fname and fdir arguments as passed by the caller
    fname, fdir, exname,    \* the locals of the same names
    sub_list, last_ses,     \* the arguments of the same names
    si,                     \* position of the outer loop in sub_list (1-based)
    ses,                    \* the inner loop's ses
    data, mask,             \* data[sub], mask[sub] of the subject being loaded, by session
                            \* (emptied once reduced: nothing reads them afterwards)
    img,                    \* the image handle of the last load (its path), <<>> when unbound
    avg, var,               \* data['avg'][sub], data['var'][sub], by subject
    invvar,                 \* the weights after line 123, by subject
    wavg,                   \* the weighted average of line 129
    loaded,                 \* the paths handed to nib.load, in order
    exported,               \* the files written by export_nifti
    pc, err,                \* position in the function; the exception that ended it
    \* calls of compute_metric
    cm_data,                \* the data cube: voxel -> comparison axis
    cm_alt,                 \* the data cube of the call compared with it
    cm_atlas, cm_isint,     \* the atlas: voxel -> label; whether its dtype is an integer type
    cm_mask,                \* the mask: voxel -> BOOLEAN
    cm_metric,              \* 'avg', 'iqr' or 'var'
    cm_calls,               \* the calls to make: <<data cube, invert>> each
    cm_out                  \* what the calls made so far returned, in order

ceVars == <<ce_fname, ce_ext, ce_once, ce_twice, ce_pc>>
crVars == <<cr_data, cr_islast, cr_rank, cr_pc>>
argVars == <<files, template, fdirArg, sub_list, last_ses>>
wvVars == <<argVars, fname, fdir, exname, si, ses, data, mask, img, avg, var,
            invvar, wavg, loaded, exported, pc, err>>
cmArgs == <<cm_data, cm_alt, cm_atlas, cm_isint, cm_mask, cm_metric, cm_calls>>
cmVars == <<cmArgs, cm_out>>
vars == <<ceVars, tiePrio, crVars, wvVars, cmVars>>

(***************************************************************************)
(* check_ext called on a file name, then on its own result.                *)
(***************************************************************************)
Pieces == { <<"a">>, <<".", "n", "i", "i">>, <<".", "g", "z">>,
            <<"s", "u", "b", "-", "0", "1">> }

PieceSeqs == UNION { [1..k -> Pieces] : k \in 0..MaxPieces }

Fnames == { Concat(ps) : ps \in PieceSeqs }

Exts == { NiiGz, <<".", "n", "i", "i">>, <<".", "g", "z">>, <<>>,
          <<".", "n", "i", "i", ".", "g", "z", ".", "1">> }

ceIdle ==
    /\ ce_fname = <<>> /\ ce_ext = <<>> /\ ce_once = <<>> /\ ce_twice = <<>>
    /\ ce_pc = "idle"

crIdle ==
    /\ cr_data = <<>> /\ cr_islast = TRUE /\ cr_rank = NaN /\ cr_pc = "idle"

wvIdle ==
    /\ files = <<>> /\ template = <<>> /\ fdirArg = <<>> /\ fname = <<>> /\ fdir = <<>> /\ exname = <<>>
    /\ sub_list = <<>> /\ last_ses = 1 /\ si = 0 /\ ses = 0
    /\ data = <<>> /\ mask = <<>> /\ img = <<>> /\ avg = <<>> /\ var = <<>>
    /\ invvar = <<>> /\ wavg = <<>> /\ loaded = <<>> /\ exported = {}
    /\ pc = "idle" /\ err = "none"

cmIdle ==
    /\ cm_data = <<>> /\ cm_alt = <<>> /\ cm_atlas = <<>> /\ cm_isint = FALSE
    /\ cm_mask = <<>> /\ cm_metric = "avg" /\ cm_calls = <<>> /\ cm_out = <<>>

InitExt ==
    /\ crIdle /\ tiePrio = <<>> /\ wvIdle /\ cmIdle
    /\ ce_fname \in Fnames
    /\ ce_ext \in Exts
    /\ ce_once = <<>>
    /\ ce_twice = <<>>
    /\ ce_pc = "start"

NormaliseOnce ==
    /\ ce_pc = "start"
    /\ ce_once' = check_ext(ce_fname, ce_ext)
    /\ ce_pc' = "once"
    /\ UNCHANGED <<ce_fname, ce_ext, ce_twice, tiePrio, crVars, wvVars, cmVars>>

NormaliseTwice ==
    /\ ce_pc = "once"
    /\ ce_twice' = check_ext(ce_once, ce_ext)
    /\ ce_pc' = "twice"
    /\ UNCHANGED <<ce_fname, ce_ext, ce_once, tiePrio, crVars, wvVars, cmVars>>

NextExt == NormaliseOnce \/ NormaliseTwice

SpecExt == InitExt /\ [][NextExt]_vars

\* C7: for every file name and every suffix, check_ext applied to its own
\* result returns that result, and the result ends with the suffix.
C7_Idempotent ==
    /\ ce_pc \in {"once", "twice"} => EndsWith(ce_once, ce_ext)
    /\ ce_pc = "twice" => ce_twice = ce_once

\* the same for the default suffix '.nii.gz' only: this one holds
C7_IdempotentDefault ==
    (ce_pc = "twice" /\ ce_ext = NiiGz) => (ce_twice = ce_once /\ EndsWith(ce_once, ce_ext))

(***************************************************************************)
(* compute_rank.  np.argsort sorts ascending; its default sort is not      *)
(* stable, so the order it gives to equal values is the build's choice:    *)
(* index j comes before index i among equal values iff tiePrio[j] <        *)
(* tiePrio[i].  Indices and positions are 0-based as in numpy; an array is *)
(* a sequence, element k of the array being the sequence's element k+1.    *)
(***************************************************************************)
SortsBefore(d, j, i) ==
    \/ RLess(d[j], d[i])
    \/ d[j] = d[i] /\ tiePrio[j] < tiePrio[i]

\* np.argsort(data, axis=-1) on one axis: line 54
np_argsort(d) ==
    LET pos(i) == Cardinality({ j \in 1..Len(d) : SortsBefore(d, j, i) })
    IN  [k \in 1..Len(d) |-> (CHOOSE i \in 1..Len(d) : pos(i) = k - 1) - 1]

\* argmax taken for argmin: the position of the first smallest element
np_argmax_smallest(s) ==
    (CHOOSE k \in 1..Len(s) :
        /\ \A j \in 1..Len(s) : s[k] <= s[j]
        /\ \A j \in 1..(k - 1) : s[j] # s[k]) - 1

\* argmin taken for argmax: the position of the first largest element
np_argmin_largest(s) ==
    (CHOOSE k \in 1..Len(s) :
        /\ \A j \in 1..Len(s) : s[k] >= s[j]
        /\ \A j \in 1..(k - 1) : s[j] # s[k]) - 1

\* reord.argmin(axis=-1), line 58: the position of the first smallest element
np_argmin(s) ==
    (CHOOSE k \in 1..Len(s) :
        /\ \A j \in 1..Len(s) : s[k] <= s[j]
        /\ \A j \in 1..(k - 1) : s[j] # s[k]) - 1

\* reord.argmax(axis=-1), line 56: the position of the first largest element
np_argmax(s) ==
    (CHOOSE k \in 1..Len(s) :
        /\ \A j \in 1..Len(s) : s[k] >= s[j]
        /\ \A j \in 1..(k - 1) : s[j] # s[k]) - 1

\* compute_rank(data, islast) on one axis: lines 54-59
compute_rank(d, islast) ==
    LET reord == np_argsort(d)
        rank == IF islast THEN np_argmax(reord) ELSE np_argmin(reord)
    IN  RMul(RDiv(FromInt(rank), FromInt(Len(d) - 1)), FromInt(100))

(***************************************************************************)
(* compute_rank called on one comparison axis.                             *)
(***************************************************************************)
Perms(S) == { f \in [S -> S] : \A a, b \in S : f[a] = f[b] => a = b }

Axes == UNION { [1..n -> 0..MaxVal] : n \in 1..MaxN }

InitRank ==
    /\ ceIdle /\ wvIdle /\ cmIdle
    /\ tiePrio \in Perms(1..MaxN)
    /\ \E a \in Axes : cr_data = [k \in 1..Len(a) |-> FromInt(a[k])]
    /\ cr_islast \in BOOLEAN
    /\ cr_rank = NaN
    /\ cr_pc = "start"

ComputeRank ==
    /\ cr_pc = "start"
    /\ cr_rank' = compute_rank(cr_data, cr_islast)
    /\ cr_pc' = "done"
    /\ UNCHANGED <<ceVars, tiePrio, cr_data, cr_islast, wvVars, cmVars>>

NextRank == ComputeRank

SpecRank == InitRank /\ [][NextRank]_vars

crN == Len(cr_data)
crTarget == cr_data[crN]
crFirst == cr_data[1]
NoTies(d) == \A i, j \in 1..Len(d) : d[i] = d[j] => i = j
UniqueMax(d, i) == \A j \in 1..Len(d) : j # i => RLess(d[j], d[i])
UniqueMin(d, i) == \A j \in 1..Len(d) : j # i => RLess(d[i], d[j])
\* (number of entries <= d[i], minus one) / (N - 1) * 100
PercentileOf(d, i) ==
    Rat((Cardinality({ j \in 1..Len(d) : RLeq(d[j], d[i]) }) - 1) * 100, Len(d) - 1)

\* C4: with islast=True, on an axis of N >= 2 values without ties, the result
\* is (number of entries <= the last entry, minus one) / (N-1) * 100: 100 when
\* the last entry is the unique maximum, 0 when it is the unique minimum, and
\* always within 0..100.
C4_RankOfTarget ==
    (cr_pc = "done" /\ cr_islast /\ crN >= 2 /\ NoTies(cr_data)) =>
        /\ cr_rank = PercentileOf(cr_data, crN)
        /\ UniqueMax(cr_data, crN) => cr_rank = FromInt(100)
        /\ UniqueMin(cr_data, crN) => cr_rank = FromInt(0)
        /\ RLeq(FromInt(0), cr_rank) /\ RLeq(cr_rank, FromInt(100))

\* a run where the last entry is the middle one of three distinct values
C4_Witness ==
    /\ cr_pc = "done" /\ cr_islast /\ crN = 3 /\ NoTies(cr_data)
    /\ ~UniqueMax(cr_data, crN) /\ ~UniqueMin(cr_data, crN)
    /\ cr_rank = FromInt(50)

\* C5 as stated: with islast=False, for every axis of N >= 2 values, the
\* result is 0 when the last entry is the unique maximum and 100 when it is
\* the unique minimum.
C5_AsStated ==
    (cr_pc = "done" /\ ~cr_islast /\ crN >= 2) =>
        /\ UniqueMax(cr_data, crN) => cr_rank = FromInt(0)
        /\ UniqueMin(cr_data, crN) => cr_rank = FromInt(100)

\* C5 amended: with islast=False the result is the percentile rank of the
\* FIRST entry of the axis: 100 when the first entry is the unique maximum,
\* 0 when it is the unique minimum, (number of entries <= the first entry,
\* minus one) / (N-1) * 100 when there are no ties; it is the opposite of
\* the islast=True result (0 for a maximal last entry, 100 for a minimal
\* one) on an axis of exactly two distinct values.
C5_RankOfFirst ==
    (cr_pc = "done" /\ ~cr_islast /\ crN >= 2) =>
        /\ UniqueMax(cr_data, 1) => cr_rank = FromInt(100)
        /\ UniqueMin(cr_data, 1) => cr_rank = FromInt(0)
        /\ NoTies(cr_data) => cr_rank = PercentileOf(cr_data, 1)
        /\ (crN = 2 /\ UniqueMax(cr_data, crN)) => cr_rank = FromInt(0)
        /\ (crN = 2 /\ UniqueMin(cr_data, crN)) => cr_rank = FromInt(100)

\* a run with islast=False where the last entry is the unique maximum and
\* the result is the rank of the first entry, the middle one
C5_Witness ==
    /\ cr_pc = "done" /\ ~cr_islast /\ crN = 3 /\ NoTies(cr_data)
    /\ UniqueMax(cr_data, crN)
    /\ cr_rank = FromInt(50)

(***************************************************************************)
(* Paths and file names of variance_weighted_average.  A filename template *)
(* is a string in which each of the replacement fields {sub} and {ses} is  *)
(* one element.                                                            *)
(***************************************************************************)
SUB_LIST == << <<"0", "0", "1">>, <<"0", "0", "2">>, <<"0", "0", "3">>, <<"0", "0", "4">>,
               <<"0", "0", "7">>, <<"0", "0", "8">>, <<"0", "0", "9">> >>

Digits == <<"0", "1", "2", "3", "4", "5", "6", "7", "8", "9">>

\* f'{ses:02g}' for 0 <= ses < 100: line 104
fmt_02g(n) == <<Digits[(n \div 10) + 1], Digits[(n % 10) + 1]>>

\* fname.format(sub=sub, ses=ses): line 104.  The result holds no field.
format(f, subid, sesstr) ==
    Concat([k \in 1..Len(f) |->
              IF f[k] = "{sub}" THEN subid
              ELSE IF f[k] = "{ses}" THEN sesstr
              ELSE <<f[k]>>])

RECURSIVE rstrip_slash(_)
rstrip_slash(p) ==
    IF p # <<>> /\ p[Len(p)] = "/" THEN rstrip_slash(SubSeq(p, 1, Len(p) - 1)) ELSE p

\* os.path.split(p): <<head, tail>>
path_split(p) ==
    LET slashes == { k \in 1..Len(p) : p[k] = "/" }
        i == IF slashes = {} THEN 0 ELSE CHOOSE k \in slashes : \A j \in slashes : j <= k
        head == SubSeq(p, 1, i)
        tail == SubSeq(p, i + 1, Len(p))
    IN  <<IF rstrip_slash(head) = <<>> THEN head ELSE rstrip_slash(head), tail>>

\* os.path.join(a, b)
path_join(a, b) ==
    IF b # <<>> /\ b[1] = "/" THEN b
    ELSE IF a = <<>> \/ a[Len(a)] = "/" THEN a \o b
    ELSE a \o <<"/">> \o b

(***************************************************************************)
(* Volumes and masked arrays.  An element of a masked array is a record    *)
(* [val, masked]: numpy keeps a value under every masked element.          *)
(***************************************************************************)
Voxels == 1..NVox
VoxelValues == {0, 5, 7}
Volumes == [Voxels -> VoxelValues]

\* load_nifti_get_mask(fname, dim=3) on a 3D volume read from path p, where
\* vol is what nib.load(p).get_fdata() returns: lines 34-44 (the branch of
\* line 43; nothing is truncated or squeezed away)
load_nifti_get_mask(p, vol) ==
    [data |-> [v \in Voxels |-> FromInt(vol[v])],
     mask |-> [v \in Voxels |-> vol[v] < 0 \/ vol[v] > 0],
     img  |-> p]

\* the sum of the unmasked elements of xs (valid[k]: element k is not masked)
RECURSIVE SumValid(_, _)
SumValid(xs, valid) ==
    IF xs = <<>> THEN FromInt(0)
    ELSE RAdd(IF Head(valid) THEN Head(xs) ELSE FromInt(0), SumValid(Tail(xs), Tail(valid)))

CountValid(valid) == Cardinality({ k \in 1..Len(valid) : valid[k] })

\* MaskedArray.mean over one axis: the mean of the unmasked elements; masked,
\* over the value 0, when every element is masked
ma_mean(xs, valid) ==
    IF CountValid(valid) = 0
    THEN [val |-> FromInt(0), masked |-> TRUE]
    ELSE [val |-> RDiv(SumValid(xs, valid), FromInt(CountValid(valid))), masked |-> FALSE]

\* lines 108-115 at one voxel: the mean and the variance across sessions of
\* the values whose mask is set
subject_avg(vx, stack, mstack) ==
    ma_mean([k \in 1..Len(stack) |-> stack[k][vx]], [k \in 1..Len(stack) |-> mstack[k][vx]])

subject_var(vx, stack, mstack) ==
    LET a == subject_avg(vx, stack, mstack).val
        d(k) == RSub(stack[k][vx], a)
    IN  ma_mean([k \in 1..Len(stack) |-> RMul(d(k), d(k))],
                [k \in 1..Len(stack) |-> mstack[k][vx]])

\* line 122: 1 / variance
inv_var(x) == RDiv(FromInt(1), x)

\* the infinite weights clamped to one instead of zero
clamp_inf_to_one(w) == IF w = Inf THEN FromInt(1) ELSE w

\* line 123: invvar[np.isinf(invvar)] = 0
clamp_inf(w) == IF w = Inf THEN FromInt(0) ELSE w

\* line 129 at one voxel: np.ma.average of the subjects' means a (masked by
\* line 126 where the weight is 0) with weights w, then .filled(0)
ma_average_filled(a, w) ==
    LET keep == [k \in 1..Len(a) |-> w[k] # FromInt(0)]
        scl == SumValid(w, keep)
    IN  IF CountValid(keep) = 0
        THEN FromInt(0)
        ELSE RDiv(SumValid([k \in 1..Len(a) |-> RMul(a[k], w[k])], keep), scl)

\* export_nifti(data, img, fname): lines 66-67
export_nifti(d, im, f) == [name |-> check_ext(f, NiiGz), data |-> d, img |-> im]

(***************************************************************************)
(* variance_weighted_average, one action per step of its body.             *)
(***************************************************************************)
sub == sub_list[si]

\* lines 88-96, and the entry into the loops of lines 99 and 102
Begin ==
    /\ pc = "start"
    /\ fname' = IF fdir # <<>> THEN path_join(fdir, fname) ELSE fname
    /\ fdir' = IF fdir # <<>> THEN fdir
               ELSE IF path_split(fname)[1] # <<>> THEN path_split(fname)[1]
               ELSE fdir
    /\ IF sub_list = <<>>
       THEN pc' = "combine" /\ UNCHANGED <<si, ses>>
       ELSE si' = 1 /\ ses' = 1 /\ pc' = IF 1 < last_ses THEN "load" ELSE "stats"
    /\ UNCHANGED <<ceVars, tiePrio, crVars, cmVars, argVars, exname, data, mask, img, avg, var,
                   invvar, wavg, loaded, exported, err>>

\* lines 104-105, the load succeeding with volume vol
LoadStep(vol) ==
    LET f == format(fname, sub, fmt_02g(ses))
        r == load_nifti_get_mask(check_ext(f, NiiGz), vol)
    IN  /\ fname' = f
        /\ loaded' = Append(loaded, check_ext(f, NiiGz))
        /\ data' = Append(data, r.data)
        /\ mask' = Append(mask, r.mask)
        /\ img' = r.img
        /\ ses' = ses + 1
        /\ pc' = IF ses + 1 < last_ses THEN "load" ELSE "stats"
        /\ UNCHANGED <<ceVars, tiePrio, crVars, cmVars, argVars, fdir, exname, si, avg, var,
                       invvar, wavg, exported, err>>

\* lines 104-105: the file exists
Load ==
    /\ pc = "load"
    /\ check_ext(format(fname, sub, fmt_02g(ses)), NiiGz) \in DOMAIN files
    /\ LoadStep(files[check_ext(format(fname, sub, fmt_02g(ses)), NiiGz)])

\* lines 104-105: nib.load raises FileNotFoundError, which ends the call
LoadFails ==
    /\ pc = "load"
    /\ check_ext(format(fname, sub, fmt_02g(ses)), NiiGz) \notin DOMAIN files
    /\ fname' = format(fname, sub, fmt_02g(ses))
    /\ loaded' = Append(loaded, check_ext(fname', NiiGz))
    /\ pc' = "failed"
    /\ err' = "FileNotFoundError"
    /\ UNCHANGED <<ceVars, tiePrio, crVars, cmVars, argVars, fdir, exname, si, ses, data, mask,
                   img, avg, var, invvar, wavg, exported>>

\* lines 108-115 for the current subject, then the next subject (lines 99-102)
SubjectStats ==
    /\ pc = "stats"
    /\ data # <<>>
    /\ avg' = Append(avg, [v \in Voxels |-> subject_avg(v, data, mask)])
    /\ var' = Append(var, [v \in Voxels |-> subject_var(v, data, mask)])
    /\ data' = <<>> /\ mask' = <<>>
    /\ IF si < Len(sub_list)
       THEN /\ si' = si + 1 /\ ses' = 1
            /\ pc' = IF 1 < last_ses THEN "load" ELSE "stats"
       ELSE /\ pc' = "combine"
            /\ UNCHANGED <<si, ses>>
    /\ UNCHANGED <<ceVars, tiePrio, crVars, cmVars, argVars, fname, fdir, exname, img, invvar,
                   wavg, loaded, exported, err>>

\* line 108 when range(1, last_ses) is empty: np.stack of no array raises
StackFails ==
    /\ pc = "stats"
    /\ data = <<>>
    /\ pc' = "failed"
    /\ err' = "ValueError"
    /\ UNCHANGED <<ceVars, tiePrio, crVars, cmVars, argVars, fname, fdir, exname, si, ses, data,
                   mask, img, avg, var, invvar, wavg, loaded, exported>>

\* lines 118-129.  np.stack returns the values of the per-subject masked
\* arrays; a voxel masked in every session has mean 0 and variance 0 there.
Combine ==
    /\ pc = "combine"
    /\ sub_list # <<>>
    /\ invvar' = [k \in 1..Len(var) |-> [v \in Voxels |-> clamp_inf(inv_var(var[k][v].val))]]
    /\ wavg' = [v \in Voxels |->
                 ma_average_filled([k \in 1..Len(avg) |-> avg[k][v].val],
                                   [k \in 1..Len(var) |-> invvar'[k][v]])]
    /\ pc' = "export"
    /\ UNCHANGED <<ceVars, tiePrio, crVars, cmVars, argVars, fname, fdir, exname, si, ses, data,
                   mask, img, avg, var, loaded, exported, err>>

\* line 119 when sub_list is empty: np.stack of no array raises
CombineFails ==
    /\ pc = "combine"
    /\ sub_list = <<>>
    /\ pc' = "failed"
    /\ err' = "ValueError"
    /\ UNCHANGED <<ceVars, tiePrio, crVars, cmVars, argVars, fname, fdir, exname, si, ses, data,
                   mask, img, avg, var, invvar, wavg, loaded, exported>>

\* lines 132-138
Export ==
    /\ pc = "export"
    /\ exname' = LET e1 == IF exname = <<>> /\ fdir # <<>> THEN path_split(fdir)[2] ELSE exname
                 IN  IF e1 = <<>> \/ e1 = <<".">>
                     THEN <<"w", "a", "v", "g">>
                     ELSE <<"w", "a", "v", "g", "_">> \o e1
    /\ exported' = exported \cup {export_nifti(wavg, img, exname')}
    /\ pc' = "done"
    /\ UNCHANGED <<ceVars, tiePrio, crVars, cmVars, argVars, fname, fdir, si, ses, data, mask,
                   img, avg, var, invvar, wavg, loaded, err>>

(***************************************************************************)
(* The workflow run on a file system.                                      *)
(***************************************************************************)
Templates == { <<"{sub}", "_", "{ses}">>,
               <<"{sub}">>,
               <<"r", "{ses}">>,
               <<"f">>,
               <<"d", "/", "{sub}", "_", "{ses}", ".", "n", "i", "i", ".", "g", "z">> }

Fdirs == { <<>>, <<"g">>, <<".">> }
Exnames == { <<>>, <<"x">> }
SubLists == { SubSeq(SUB_LIST, 1, n) : n \in 0..MaxSub }

HasBoth(t) == (\E k \in 1..Len(t) : t[k] = "{sub}") /\ (\E k \in 1..Len(t) : t[k] = "{ses}")

\* the template with the directory of lines 93-94 in front
JoinedTemplate(t, d) == IF d # <<>> THEN path_join(d, t) ELSE t

\* the path of the file of subject s, session n
TemplatePath(t, d, s, n) == check_ext(format(JoinedTemplate(t, d), s, fmt_02g(n)), NiiGz)

\* the grid sub_list x 1..last_ses-1, subject-major
Grid(sl, ls) ==
    [k \in 1..(Len(sl) * (ls - 1)) |-> <<sl[((k - 1) \div (ls - 1)) + 1], ((k - 1) % (ls - 1)) + 1>>]

GridPaths(t, d, sl, ls) ==
    { TemplatePath(t, d, Grid(sl, ls)[k][1], Grid(sl, ls)[k][2]) : k \in 1..(Len(sl) * (ls - 1)) }

wvStart ==
    /\ fname = template /\ fdir = fdirArg
    /\ si = 0 /\ ses = 0
    /\ data = <<>> /\ mask = <<>> /\ img = <<>> /\ avg = <<>> /\ var = <<>>
    /\ invvar = <<>> /\ wavg = <<>> /\ loaded = <<>> /\ exported = {}
    /\ pc = "start" /\ err = "none"

Init ==
    /\ ceIdle /\ crIdle /\ cmIdle /\ tiePrio = <<>>
    /\ template \in Templates
    /\ fdirArg \in Fdirs
    /\ exname \in Exnames
    /\ sub_list \in SubLists
    /\ last_ses \in 1..(MaxSes + 1)
    /\ \E P \in SUBSET GridPaths(template, fdirArg, sub_list, last_ses) : files \in [P -> Volumes]
    /\ wvStart

Next ==
    \/ Begin
    \/ Load
    \/ LoadFails
    \/ SubjectStats
    \/ StackFails
    \/ Combine
    \/ CombineFails
    \/ Export

Spec == Init /\ [][Next]_vars

TypeOK ==
    /\ pc \in {"idle", "start", "load", "stats", "combine", "export", "done", "failed"}
    /\ Len(avg) = Len(var)
    /\ Len(data) = Len(mask)

\* the grid of this call and the path of its k-th pair
grid == Grid(sub_list, last_ses)
gridPath(k) == TemplatePath(template, fdirArg, grid[k][1], grid[k][2])
Const(c) == [v \in Voxels |-> c]

\* C1: the paths handed to the loader are, in order, the paths obtained by
\* substituting each pair (subject, session) of the subject-major grid into
\* the template, |sub_list| * (last_ses - 1) of them when every load
\* succeeds, and two different pairs are loaded from two different paths
\* when the template contains both placeholders.
C1_GridOfPaths ==
    /\ Len(loaded) <= Len(grid)
    /\ \A k \in 1..Len(loaded) : k <= Len(grid) => loaded[k] = gridPath(k)
    /\ pc \in {"combine", "export", "done"} => Len(loaded) = Len(sub_list) * (last_ses - 1)
    /\ HasBoth(template) =>
          \A i, j \in 1..Len(loaded) : i # j => loaded[i] # loaded[j]

\* the files of the end-to-end scenario: subject A (001) holds 5 in both
\* sessions, subject B (002) holds 5 in session 1 and 7 in session 2
C2_Scenario ==
    /\ sub_list = SubSeq(SUB_LIST, 1, 2)
    /\ last_ses = 3
    /\ HasBoth(template)
    /\ DOMAIN files = { gridPath(k) : k \in 1..4 }
    /\ files[gridPath(1)] = Const(5) /\ files[gridPath(2)] = Const(5)
    /\ files[gridPath(3)] = Const(5) /\ files[gridPath(4)] = Const(7)

\* C2: run on the scenario's files, the call exports a volume whose value is
\* 6 at every voxel.
C2_EndToEnd ==
    (pc = "done" /\ C2_Scenario) =>
        \A x \in exported : \A v \in Voxels : x.data[v] = FromInt(6)

\* C3: if the file of any pair of the grid is missing the call fails with a
\* load failure and writes nothing; a volume is exported only after the file
\* of every pair of the grid has been loaded.
C3_AllOrNothing ==
    /\ (pc \in {"done", "failed"} /\ \E k \in 1..Len(grid) : gridPath(k) \notin DOMAIN files) =>
          (pc = "failed" /\ err = "FileNotFoundError" /\ exported = {})
    /\ exported # {} =>
          /\ \A k \in 1..Len(grid) : gridPath(k) \in DOMAIN files
          /\ loaded = [k \in 1..Len(grid) |-> gridPath(k)]

(***************************************************************************)
(* The workflow with the loader returning any volume: what the reductions  *)
(* of lines 107-129 do on every stack of sessions, whichever files the     *)
(* loads read.  Every run of Spec that loads its files is a run of SpecAvg.*)
(***************************************************************************)
LoadAny ==
    /\ pc = "load"
    /\ \E vol \in Volumes : LoadStep(vol)

InitAvg ==
    /\ ceIdle /\ crIdle /\ cmIdle /\ tiePrio = <<>>
    /\ template = <<"{sub}", "_", "{ses}">>
    /\ fdirArg = <<>>
    /\ exname = <<>>
    /\ sub_list \in SubLists \ {<<>>}
    /\ last_ses \in 2..(MaxSes + 1)
    /\ files = <<>>
    /\ wvStart

NextAvg ==
    \/ Begin
    \/ LoadAny
    \/ SubjectStats
    \/ Combine
    \/ Export

SpecAvg == InitAvg /\ [][NextAvg]_vars

Subjects == 1..Len(sub_list)
ZeroVar(k, v) == var[k][v].val = FromInt(0)
Reciprocal(x) == Rat(x[2], x[1])     \* of a rational x > 0

\* sum of f[k] over the set S of indices
RECURSIVE SumOver(_, _)
SumOver(f, S) ==
    IF S = {} THEN FromInt(0)
    ELSE LET k == CHOOSE x \in S : TRUE IN RAdd(f[k], SumOver(f, S \ {k}))

\* the inverse-variance weighted mean at voxel v of the subjects of S, all of
\* non-zero variance
WeightedMean(S, v) ==
    LET num == SumOver([k \in Subjects |-> IF k \in S THEN RMul(avg[k][v].val, Reciprocal(var[k][v].val)) ELSE FromInt(0)], S)
        den == SumOver([k \in Subjects |-> IF k \in S THEN Reciprocal(var[k][v].val) ELSE FromInt(0)], S)
    IN  Rat(num[1] * den[2], num[2] * den[1])

\* C8: in the result, a voxel at which every subject's variance is zero is
\* exactly 0 whatever the subjects' means; a subject whose variance at a
\* voxel is zero has weight zero there and the result is the weighted mean
\* of the other subjects alone.
C8_ZeroVariance ==
    pc \in {"export", "done"} =>
        \A v \in Voxels :
            LET S == { k \in Subjects : ~ZeroVar(k, v) }
            IN  /\ \A k \in Subjects : ZeroVar(k, v) => invvar[k][v] = FromInt(0)
                /\ S = {} => wavg[v] = FromInt(0)
                /\ S # {} => wavg[v] = WeightedMean(S, v)
                /\ pc = "done" => \A x \in exported : x.data[v] = wavg[v]

\* a finished run where one subject has zero variance and a non-zero mean,
\* another has non-zero variance, and the result is the latter's mean
C8_Witness ==
    /\ pc = "done"
    /\ \E v \in Voxels : \E k, j \in Subjects :
          /\ ZeroVar(k, v) /\ avg[k][v].val = FromInt(5)
          /\ ~ZeroVar(j, v) /\ avg[j][v].val = FromInt(6)
          /\ \A x \in exported : x.data[v] = FromInt(6)

\* a finished run where every subject has zero variance and a non-zero mean
C8_WitnessAllZero ==
    /\ pc = "done" /\ Len(sub_list) >= 2
    /\ \E v \in Voxels :
          /\ \A k \in Subjects : ZeroVar(k, v) /\ avg[k][v].val # FromInt(0)
          /\ wavg[v] = FromInt(0)

(***************************************************************************)
(* compute_metric.  The data cube maps a voxel to its comparison axis (of  *)
(* integers here); the atlas maps a voxel to an integer label and has an   *)
(* integer or a float dtype; the mask is boolean.                          *)
(***************************************************************************)
MVoxels == 1..NVoxM

\* the atlas left as it is
atlas_unmasked(atlas, msk) == atlas

\* line 151: atlas * mask
atlas_times_mask(atlas, msk) == [v \in DOMAIN atlas |-> IF msk[v] THEN atlas[v] ELSE 0]

\* the elements of the finite set S of integers, ascending
RECURSIVE SortedSeq(_)
SortedSeq(S) ==
    IF S = {} THEN <<>>
    ELSE LET m == CHOOSE x \in S : \A y \in S : x <= y IN <<m>> \o SortedSeq(S \ {m})

\* lines 152-153: np.unique(atlas), then the labels > 0
unique_positive(atl) == SortedSeq({ x \in { atl[v] : v \in DOMAIN atl } : x > 0 })

\* data[atlas == label][:, e]: entry e of the voxels of a label, in voxel order
RECURSIVE Gather(_, _, _, _, _)
Gather(d, atl, label, e, v) ==
    IF v > Len(atl) THEN <<>>
    ELSE (IF atl[v] = label THEN <<FromInt(d[v][e])>> ELSE <<>>) \o Gather(d, atl, label, e, v + 1)

\* xs sorted ascending
sorted(xs) ==
    [k \in 1..Len(xs) |->
        xs[CHOOSE i \in 1..Len(xs) :
              /\ Cardinality({ j \in 1..Len(xs) : RLess(xs[j], xs[i]) }) < k
              /\ Cardinality({ j \in 1..Len(xs) : RLeq(xs[j], xs[i]) }) >= k]]

np_mean(xs) == RDiv(RSum(xs), FromInt(Len(xs)))

np_var(xs) ==
    LET m == np_mean(xs)
    IN  np_mean([k \in 1..Len(xs) |-> RMul(RSub(xs[k], m), RSub(xs[k], m))])

\* np.percentile(xs, q): linear interpolation between the closest ranks
np_percentile(xs, q) ==
    LET srt == sorted(xs)
        lo == (q * (Len(xs) - 1)) \div 100
        frac == Rat((q * (Len(xs) - 1)) % 100, 100)
        hi == IF lo + 2 <= Len(xs) THEN lo + 2 ELSE Len(xs)
    IN  RAdd(srt[lo + 1], RMul(frac, RSub(srt[hi], srt[lo + 1])))

\* lines 161-169: the statistic of one label at one entry of the axis
parcel_stat(metric, xs) ==
    IF metric = "avg" THEN np_mean(xs)
    ELSE IF metric = "iqr" THEN RSub(np_percentile(xs, 75), np_percentile(xs, 25))
    ELSE np_var(xs)

\* lines 176-185: a float assigned into a copy of the atlas takes the atlas's
\* dtype; an integer dtype truncates it
store_as(isint, x) == IF isint THEN FromInt(Trunc(x)) ELSE x

\* lines 172-174
invert_rank(invert, r) == IF invert THEN RSub(FromInt(100), r) ELSE r

\* compute_metric(data, atlas, mask, metric, invert): lines 151-187
compute_metric(d, atlas, msk, metric, invert, isint) ==
    LET atl == atlas_times_mask(atlas, msk)
        unique == unique_positive(atl)
        n == Len(d[1])
        parcels == [m \in 1..Len(unique) |->
                      [e \in 1..n |-> parcel_stat(metric, Gather(d, atl, unique[m], e, 1))]]
        rank == [m \in 1..Len(unique) |-> invert_rank(invert, compute_rank(parcels[m], TRUE))]
        idx(v) == CHOOSE m \in 1..Len(unique) : unique[m] = atl[v]
        labelled(v) == \E m \in 1..Len(unique) : unique[m] = atl[v]
    IN  [unique |-> unique,
         parcels |-> parcels,
         rank |-> rank,
         rank_map |-> [v \in DOMAIN atl |->
                         IF labelled(v) THEN store_as(isint, rank[idx(v)]) ELSE FromInt(atl[v])],
         orig_metric |-> [v \in DOMAIN atl |->
                         IF labelled(v) THEN store_as(isint, parcels[idx(v)][n]) ELSE FromInt(atl[v])]]

(***************************************************************************)
(* compute_metric called on the same atlas, mask and metric: on a data     *)
(* cube with invert=False, then with invert=True (SpecMetric); on a data   *)
(* cube, then on one that differs from it at one voxel (SpecMask).         *)
(***************************************************************************)
DataValues == 0..MaxData
Rows(n) == [1..n -> DataValues]
Cubes(n) == [MVoxels -> Rows(n)]
Atlases == [MVoxels -> 0..MaxLabel]
Masks == [MVoxels -> BOOLEAN]
Metrics == {"avg", "iqr", "var"}
Stable == [k \in 1..MaxN |-> k]
Reverse == [k \in 1..MaxN |-> MaxN + 1 - k]

\* two labels whose per-entry averages are [1,2,3] and [10,20,5]
ExampleCube == [v \in MVoxels |-> IF v = 1 THEN <<1, 2, 3>> ELSE <<10, 20, 5>>]
ExampleAtlas == [v \in MVoxels |-> IF v = 1 THEN 1 ELSE 2]

CallMetric ==
    /\ Len(cm_out) < Len(cm_calls)
    /\ LET c == cm_calls[Len(cm_out) + 1]
       IN  cm_out' = Append(cm_out,
                compute_metric(c[1], cm_atlas, cm_mask, cm_metric, c[2], cm_isint))
    /\ UNCHANGED <<ceVars, tiePrio, crVars, wvVars, cmArgs>>

InitMetric ==
    /\ ceIdle /\ crIdle /\ wvIdle
    /\ tiePrio \in {Stable, Reverse}
    /\ \/ /\ cm_data \in UNION { Cubes(n) : n \in 2..MaxN }
          /\ cm_atlas \in Atlases
       \/ /\ cm_data = ExampleCube
          /\ cm_atlas = ExampleAtlas
    /\ cm_alt = cm_data
    /\ cm_isint \in BOOLEAN
    /\ cm_mask \in Masks
    /\ cm_metric \in Metrics
    /\ cm_calls = << <<cm_data, FALSE>>, <<cm_data, TRUE>> >>
    /\ cm_out = <<>>

NextMetric == CallMetric

SpecMetric == InitMetric /\ [][NextMetric]_vars

InitMask ==
    /\ ceIdle /\ crIdle /\ wvIdle
    /\ tiePrio \in {Stable, Reverse}
    /\ cm_data \in Cubes(AxisLenMask)
    /\ \E pv \in MVoxels : \E row \in Rows(AxisLenMask) : cm_alt = [cm_data EXCEPT ![pv] = row]
    /\ cm_atlas \in Atlases
    /\ cm_isint \in BOOLEAN
    /\ cm_mask \in Masks
    /\ cm_metric \in Metrics
    /\ cm_calls = << <<cm_data, FALSE>>, <<cm_alt, FALSE>> >>
    /\ cm_out = <<>>

NextMask == CallMetric

SpecMask == InitMask /\ [][NextMask]_vars

\* voxel v has a positive label and a valid mask
Included(v) == cm_atlas[v] > 0 /\ cm_mask[v]
\* the position of voxel v's label in the label set of result o
LabelIdx(o, v) == CHOOSE m \in 1..Len(o.unique) : o.unique[m] = cm_atlas[v]
cmN == Len(cm_data[1])

\* C6: at every voxel whose label L is positive and whose mask is valid,
\* rank_map holds exactly the percentile rank computed for L and metric_map
\* exactly L's metric value at the last entry of the axis, for integer and
\* float atlases and every metric; on the two-label example rank_map is 100
\* and 0 and metric_map 3 and 5.
C6_ExactMaps ==
    Len(cm_out) >= 1 =>
        LET o == cm_out[1]
        IN  /\ \A v \in MVoxels : Included(v) =>
                  /\ \E m \in 1..Len(o.unique) : o.unique[m] = cm_atlas[v]
                  /\ o.rank_map[v] = o.rank[LabelIdx(o, v)]
                  /\ o.orig_metric[v] = o.parcels[LabelIdx(o, v)][cmN]
            /\ (cm_data = ExampleCube /\ cm_atlas = ExampleAtlas /\ cm_metric = "avg"
                  /\ \A v \in MVoxels : cm_mask[v]) =>
                  \A v \in MVoxels :
                      /\ o.rank_map[v] = FromInt(IF v = 1 THEN 100 ELSE 0)
                      /\ o.orig_metric[v] = FromInt(IF v = 1 THEN 3 ELSE 5)

\* the same restricted to atlases of a float dtype: this one holds
C6_ExactMapsFloat == cm_isint \/ C6_ExactMaps

\* C10: for the same data, atlas, mask and metric, rank_map of the
\* invert=True call is 100 minus rank_map of the invert=False call at every
\* voxel with a positive mask-valid label and the same at every other
\* voxel, and metric_map is the same in both calls.
C10_InvertComplements ==
    (Len(cm_out) = 2 /\ cm_calls[2][2]) =>
        /\ \A v \in MVoxels :
              IF Included(v)
              THEN cm_out[2].rank_map[v] = RSub(FromInt(100), cm_out[1].rank_map[v])
              ELSE cm_out[2].rank_map[v] = cm_out[1].rank_map[v]
        /\ cm_out[2].orig_metric = cm_out[1].orig_metric

\* the same restricted to atlases of a float dtype: this one holds
C10_InvertComplementsFloat == cm_isint \/ C10_InvertComplements

\* C9: voxels with label 0 and mask-invalid voxels contribute to no parcel:
\* two calls whose data differ only at such voxels return the same rank_map
\* and the same metric_map, and a label is in the label set iff one of its
\* voxels is mask-valid.
C9_MaskedOutIgnored ==
    /\ \A k \in 1..Len(cm_out) : \A L \in 1..MaxLabel :
          (\E m \in 1..Len(cm_out[k].unique) : cm_out[k].unique[m] = L)
              <=> (\E v \in MVoxels : cm_atlas[v] = L /\ cm_mask[v])
    /\ (Len(cm_out) = 2 /\ ~cm_calls[2][2]
          /\ \A v \in MVoxels : Included(v) => cm_alt[v] = cm_data[v]) =>
          /\ cm_out[2].rank_map = cm_out[1].rank_map
          /\ cm_out[2].orig_metric = cm_out[1].orig_metric
          /\ cm_out[2].parcels = cm_out[1].parcels

\* two calls whose data differ at a voxel that carries a label but is
\* mask-invalid, next to a voxel that is included
C9_Witness ==
    /\ Len(cm_out) = 2 /\ ~cm_calls[2][2]
    /\ \E v, u \in MVoxels :
          /\ cm_atlas[v] > 0 /\ ~cm_mask[v] /\ cm_alt[v] # cm_data[v]
          /\ \A x \in MVoxels : cm_atlas[x] = cm_atlas[v] => ~cm_mask[x]
          /\ Included(u) /\ cm_atlas[u] # cm_atlas[v]
          /\ cm_out[1].unique = <<cm_atlas[u]>>
    /\ \A x \in MVoxels : Included(x) => cm_alt[x] = cm_data[x]

=============================================================================
